---- MODULE Spec2Model ----
(***************************************************************************)
(* Model of cachelib's LRUCache (src/src/cachelib/lrucache.py).            *)
(*                                                                         *)
(* One engine, whose public methods each run under the engine's lock and   *)
(* are therefore modelled as one atomic action per call.  The OrderedDict  *)
(* `store` is a sequence of entries in recency order: index 1 is the       *)
(* least-recently-used end (the one popitem(last=False) removes), the last *)
(* index is the most-recently-used end.  time.time() is the variable `now`,*)
(* advanced by the action tick.                                            *)
(***************************************************************************)
EXTENDS Integers, Sequences, FiniteSets, TLC

\* ---------------------------------------------------------------- bounds
MaxKey   == 3      \* keys are 1..MaxKey
MaxVal   == 1      \* proper values are 1..MaxVal
MaxCap   == 3      \* largest capacity given to the constructor or to resize
MaxTime  == 2      \* the clock runs from 0 to MaxTime
MaxTtl   == 1      \* largest ttl given to the constructor
MaxCount == 2      \* hits and misses are each counted up to MaxCount
MaxEvict == 2      \* evictions is counted up to MaxEvict
MaxThread == 2     \* threads are 1..MaxThread

\* ------------------------------------------------------- value encodings
NoneVal  == 0      \* Python's None as a value or as a return value
NoneTime == -1     \* Python's None as a ttl or as an expiration time

Keys       == 1..MaxKey
Values     == {NoneVal} \cup (1..MaxVal)
Ttls       == {NoneTime} \cup (1..MaxTtl)
Capacities == (-1)..MaxCap      \* arguments resize accepts: it validates nothing
Threads    == 1..MaxThread

VARIABLES store, max_size, ttl, hits, misses, evictions, now, last

\* The engine's lock (0 when free, else the thread holding it), the threads
\* calling the engine, and how often each wrapped call has run its function.
VARIABLES lock, th, invoked

vars == <<store, max_size, ttl, hits, misses, evictions, now, last>>

tvars == <<lock, th, invoked>>

allvars == <<vars, tvars>>

\* ------------------------------------------------ OrderedDict operations
KeysOf(s) == [i \in 1..Len(s) |-> s[i].key]

HasKey(s, k) == \E i \in 1..Len(s) : s[i].key = k

IndexOf(s, k) == CHOOSE i \in 1..Len(s) : s[i].key = k

getitem(s, k) == s[IndexOf(s, k)]

RemoveAt(s, i) == SubSeq(s, 1, i - 1) \o SubSeq(s, i + 1, Len(s))

\* del self.store[key]
delitem(s, k) == RemoveAt(s, IndexOf(s, k))

\* move_to_end that leaves the order as it is
move_to_end_noop(s, k) == s

\* move_to_end that also restarts the entry's ttl (a sliding expiration)
move_to_end_sliding(s, k) ==
    RemoveAt(s, IndexOf(s, k))
        \o <<[getitem(s, k) EXCEPT !.exp = IF ttl # NoneTime THEN now + ttl ELSE NoneTime]>>

\* self.store.move_to_end(key)
move_to_end(s, k) == RemoveAt(s, IndexOf(s, k)) \o <<getitem(s, k)>>

\* an assignment that keeps the value of an existing key (setdefault)
setitem_keep(s, k, v, e) ==
    IF HasKey(s, k)
    THEN [s EXCEPT ![IndexOf(s, k)] = [key |-> k, val |-> s[IndexOf(s, k)].val, exp |-> e]]
    ELSE Append(s, [key |-> k, val |-> v, exp |-> e])

\* self.store[key] = (value, expiration_time): an existing key keeps its
\* position in the order, a new key is appended at the end
setitem(s, k, v, e) ==
    LET item == [key |-> k, val |-> v, exp |-> e]
    IN  IF HasKey(s, k)
        THEN [s EXCEPT ![IndexOf(s, k)] = item]
        ELSE Append(s, item)

\* an eviction that takes an expired entry first, when there is one
popitem_expired(s) ==
    LET dead == {i \in 1..Len(s) : s[i].exp # NoneTime /\ now > s[i].exp}
    IN  IF dead = {}
        THEN Tail(s)
        ELSE RemoveAt(s, CHOOSE i \in dead : \A j \in dead : i <= j)

\* popitem(last=True): pops the most-recently-used end
popitem_last(s) == SubSeq(s, 1, Len(s) - 1)

\* self.store.popitem(last=False)
popitem(s) == Tail(s)

\* ------------------------------------------------------ private methods
\* expiry that already holds at the expiration time itself
is_expired_at(expiration_time, t) ==
    IF expiration_time = NoneTime
    THEN FALSE
    ELSE t >= expiration_time

is_expired(expiration_time, t) ==
    IF expiration_time = NoneTime
    THEN FALSE
    ELSE t > expiration_time

\* an eviction loop that stops one entry early (a single `if`, not a `while`)
evict_once(s, m, ev) ==
    IF Len(s) > m
    THEN IF s = <<>>
         THEN [store |-> s, evictions |-> ev, raised |-> TRUE]
         ELSE [store |-> popitem(s), evictions |-> ev + 1, raised |-> FALSE]
    ELSE [store |-> s, evictions |-> ev, raised |-> FALSE]

\* The loop of _evict_if_needed on store s with capacity m and counter ev.
\* popitem on an empty OrderedDict raises KeyError, which happens exactly
\* when the loop condition still holds on the empty store (m < 0).
RECURSIVE evict_if_needed(_, _, _)
evict_if_needed(s, m, ev) ==
    IF Len(s) > m
    THEN IF s = <<>>
         THEN [store |-> s, evictions |-> ev, raised |-> TRUE]
         ELSE evict_if_needed(popitem(s), m, ev + 1)
    ELSE [store |-> s, evictions |-> ev, raised |-> FALSE]

\* --------------------------------------------------------- construction
\* The record `last` is the most recent call: its name, its arguments,
\* the branch it took, what it returned, and whether it raised.
Call(o, k, v, r, f, b, x) ==
    [op |-> o, key |-> k, val |-> v, ret |-> r, flag |-> f,
     outcome |-> b, raised |-> x, snap |-> <<>>]

\* a thread that is in no call
Idle(k) ==
    [pc |-> "idle", op |-> "none", key |-> k, val |-> 0, ret |-> NoneVal,
     flag |-> FALSE, outcome |-> "none", raised |-> FALSE, snap |-> <<>>,
     cid |-> 0, left |-> 0, before |-> <<>>, retry |-> FALSE]

EngineInit ==
    /\ max_size \in 1..MaxCap
    /\ ttl \in Ttls
    /\ store = <<>>
    /\ hits = 0
    /\ misses = 0
    /\ evictions = 0
    /\ now = 0
    /\ last = Call("init", 0, 0, NoneVal, FALSE, "ok", FALSE)

\* one caller, no thread is ever inside a call when the next call starts
Init ==
    /\ EngineInit
    /\ lock = 0
    /\ th = [t \in Threads |-> Idle(0)]
    /\ invoked = <<>>

\* ------------------------------------------------------- public methods
set(key, value) ==
    LET expiration_time == IF ttl # NoneTime THEN now + ttl ELSE NoneTime
        present  == HasKey(store, key)
        moved    == IF present THEN move_to_end(store, key) ELSE store
        assigned == setitem(moved, key, value, expiration_time)
        r        == evict_if_needed(assigned, max_size, evictions)
    IN  /\ r.evictions <= MaxEvict
        /\ store' = r.store
        /\ evictions' = r.evictions
        /\ last' = Call("set", key, value, NoneVal, FALSE,
                        IF present THEN "update" ELSE "insert", r.raised)
        /\ UNCHANGED <<max_size, ttl, hits, misses, now>>

get(key) ==
    IF ~HasKey(store, key)
    THEN /\ misses < MaxCount
         /\ misses' = misses + 1
         /\ last' = Call("get", key, 0, NoneVal, FALSE, "absent", FALSE)
         /\ UNCHANGED <<store, max_size, ttl, hits, evictions, now>>
    ELSE LET item == getitem(store, key)
         IN  IF is_expired(item.exp, now)
             THEN /\ misses < MaxCount
                  /\ store' = delitem(store, key)
                  /\ misses' = misses + 1
                  /\ last' = Call("get", key, 0, NoneVal, FALSE, "expired", FALSE)
                  /\ UNCHANGED <<max_size, ttl, hits, evictions, now>>
             ELSE /\ hits < MaxCount
                  /\ store' = move_to_end(store, key)
                  /\ hits' = hits + 1
                  /\ last' = Call("get", key, 0, item.val, FALSE, "hit", FALSE)
                  /\ UNCHANGED <<max_size, ttl, misses, evictions, now>>

\* the dictionary stats returns, as <<hits, misses, evictions, current_size>>
stats ==
    /\ last' = [Call("stats", 0, 0, NoneVal, FALSE, "ok", FALSE)
                   EXCEPT !.snap = <<hits, misses, evictions, Len(store)>>]
    /\ UNCHANGED <<store, max_size, ttl, hits, misses, evictions, now>>

\* delete that reports True whether or not the key was there
delete_true(key) ==
    IF HasKey(store, key)
    THEN /\ store' = delitem(store, key)
         /\ last' = Call("delete", key, 0, NoneVal, TRUE, "removed", FALSE)
         /\ UNCHANGED <<max_size, ttl, hits, misses, evictions, now>>
    ELSE /\ last' = Call("delete", key, 0, NoneVal, TRUE, "absent", FALSE)
         /\ UNCHANGED <<store, max_size, ttl, hits, misses, evictions, now>>

delete(key) ==
    IF HasKey(store, key)
    THEN /\ store' = delitem(store, key)
         /\ last' = Call("delete", key, 0, NoneVal, TRUE, "removed", FALSE)
         /\ UNCHANGED <<max_size, ttl, hits, misses, evictions, now>>
    ELSE /\ last' = Call("delete", key, 0, NoneVal, FALSE, "absent", FALSE)
         /\ UNCHANGED <<store, max_size, ttl, hits, misses, evictions, now>>

\* clear that also resets the counters
clear_reset ==
    /\ store' = <<>>
    /\ hits' = 0
    /\ misses' = 0
    /\ evictions' = 0
    /\ last' = Call("clear", 0, 0, NoneVal, FALSE, "ok", FALSE)
    /\ UNCHANGED <<max_size, ttl, now>>

clear ==
    /\ store' = <<>>
    /\ last' = Call("clear", 0, 0, NoneVal, FALSE, "ok", FALSE)
    /\ UNCHANGED <<max_size, ttl, hits, misses, evictions, now>>

\* a membership test that refreshes the recency of a live key
contains_touch(key) ==
    IF ~HasKey(store, key)
    THEN /\ last' = Call("contains", key, 0, NoneVal, FALSE, "absent", FALSE)
         /\ UNCHANGED <<store, max_size, ttl, hits, misses, evictions, now>>
    ELSE LET item == getitem(store, key)
         IN  IF is_expired(item.exp, now)
             THEN /\ store' = delitem(store, key)
                  /\ last' = Call("contains", key, 0, NoneVal, FALSE, "expired", FALSE)
                  /\ UNCHANGED <<max_size, ttl, hits, misses, evictions, now>>
             ELSE /\ store' = move_to_end(store, key)
                  /\ last' = Call("contains", key, 0, NoneVal, TRUE, "live", FALSE)
                  /\ UNCHANGED <<max_size, ttl, hits, misses, evictions, now>>

contains(key) ==
    IF ~HasKey(store, key)
    THEN /\ last' = Call("contains", key, 0, NoneVal, FALSE, "absent", FALSE)
         /\ UNCHANGED <<store, max_size, ttl, hits, misses, evictions, now>>
    ELSE LET item == getitem(store, key)
         IN  IF is_expired(item.exp, now)
             THEN /\ store' = delitem(store, key)
                  /\ last' = Call("contains", key, 0, NoneVal, FALSE, "expired", FALSE)
                  /\ UNCHANGED <<max_size, ttl, hits, misses, evictions, now>>
             ELSE /\ last' = Call("contains", key, 0, NoneVal, TRUE, "live", FALSE)
                  /\ UNCHANGED <<store, max_size, ttl, hits, misses, evictions, now>>

\* resize that sets evictions to the number of entries this call removed
resize_recount(new_max_size) ==
    LET r == evict_if_needed(store, new_max_size, 0)
    IN  /\ r.evictions <= MaxEvict
        /\ max_size' = new_max_size
        /\ store' = r.store
        /\ evictions' = r.evictions
        /\ last' = Call("resize", 0, new_max_size, NoneVal, FALSE, "ok", r.raised)
        /\ UNCHANGED <<ttl, hits, misses, now>>

resize(new_max_size) ==
    LET r == evict_if_needed(store, new_max_size, evictions)
    IN  /\ r.evictions <= MaxEvict
        /\ max_size' = new_max_size
        /\ store' = r.store
        /\ evictions' = r.evictions
        /\ last' = Call("resize", 0, new_max_size, NoneVal, FALSE, "ok", r.raised)
        /\ UNCHANGED <<ttl, hits, misses, now>>

\* time.time() moves on between two calls
tick ==
    /\ now < MaxTime
    /\ now' = now + 1
    /\ last' = Call("tick", 0, 0, NoneVal, FALSE, "ok", FALSE)
    /\ UNCHANGED <<store, max_size, ttl, hits, misses, evictions>>

Next ==
    \/ (\E key \in Keys, value \in Values : set(key, value)) /\ UNCHANGED tvars
    \/ (\E key \in Keys : get(key)) /\ UNCHANGED tvars
    \/ stats /\ UNCHANGED tvars
    \/ (\E key \in Keys : delete(key)) /\ UNCHANGED tvars
    \/ clear /\ UNCHANGED tvars
    \/ (\E key \in Keys : contains(key)) /\ UNCHANGED tvars
    \/ (\E new_max_size \in Capacities : resize(new_max_size)) /\ UNCHANGED tvars
    \/ tick /\ UNCHANGED tvars

Spec == Init /\ [][Next]_vars

\* ------------------------------------------------ calls made by threads
\* Every public method is `with self.lock:` around its body.  A thread that
\* calls one waits at "acquire" until the lock is free, runs the body at
\* "body", leaves the with-block at "release" on whatever path the body
\* took (return, early return or exception), and is back at "idle".  While
\* it holds the lock the result of its call is the record `last`; what get
\* returned is kept in the thread's record when its caller keeps it (the
\* wrapper's `cached`, cid # 0) and dropped when the caller ignores it.

\* thread t calls method o with key k and value (or capacity) v
Enter(t, o, k, v) ==
    [th EXCEPT ![t] = [@ EXCEPT !.pc = "acquire", !.op = o, !.key = k,
                                !.val = v, !.ret = NoneVal, !.flag = FALSE,
                                !.outcome = "none", !.raised = FALSE,
                                !.snap = <<>>]]

\* the call fits the counters' bounds
Countable(o, k, v) ==
    CASE o = "get"    -> hits < MaxCount /\ misses < MaxCount
      [] o = "set"    -> evict_if_needed(setitem(store, k, v, NoneTime),
                                         max_size, evictions).evictions <= MaxEvict
      [] o = "resize" -> evict_if_needed(store, v, evictions).evictions <= MaxEvict
      [] OTHER        -> TRUE

\* a lock that lets a thread in while another one holds it
acquire_unlocked(t) ==
    /\ th[t].pc = "acquire"
    /\ Countable(th[t].op, th[t].key, th[t].val)
    /\ lock' = t
    /\ th' = [th EXCEPT ![t].pc = "body"]
    /\ UNCHANGED <<vars, invoked>>

\* self.lock.__enter__()
acquire(t) ==
    /\ th[t].pc = "acquire"
    /\ lock = 0
    /\ Countable(th[t].op, th[t].key, th[t].val)
    /\ lock' = t
    /\ th' = [th EXCEPT ![t].pc = "body"]
    /\ UNCHANGED <<vars, invoked>>

\* the body of set, get, delete, clear, __contains__ or resize
body(t) ==
    /\ th[t].pc = "body"
    /\ CASE th[t].op = "set"      -> set(th[t].key, th[t].val)
         [] th[t].op = "get"      -> get(th[t].key)
         [] th[t].op = "delete"   -> delete(th[t].key)
         [] th[t].op = "clear"    -> clear
         [] th[t].op = "contains" -> contains(th[t].key)
         [] th[t].op = "resize"   -> resize(th[t].val)
         [] OTHER                 -> FALSE
    /\ th' = IF th[t].cid # 0 /\ th[t].op = "get"
             THEN [th EXCEPT ![t].pc = "release", ![t].ret = last'.ret,
                             ![t].outcome = last'.outcome]
             ELSE [th EXCEPT ![t].pc = "release"]
    /\ UNCHANGED <<lock, invoked>>

\* the body of stats: the dictionary display reads self.hits, self.misses,
\* self.evictions and len(self.store) one after the other
stats_read(t) ==
    /\ th[t].pc = "body"
    /\ th[t].op = "stats"
    /\ LET fields == <<hits, misses, evictions, Len(store)>>
           read   == Append(th[t].snap, fields[Len(th[t].snap) + 1])
       IN  th' = [th EXCEPT ![t] = [@ EXCEPT !.snap = read,
                                             !.pc = IF Len(read) = 4
                                                    THEN "release" ELSE "body"]]
    /\ UNCHANGED <<vars, lock, invoked>>

\* what the caller of thread t has in hand once the call has returned
Returned(t) ==
    IF th[t].cid = 0
    THEN [th[t] EXCEPT !.pc = "idle", !.snap = <<>>, !.ret = NoneVal]
    ELSE IF th[t].op = "get"
         THEN [th[t] EXCEPT !.pc = "cached"]
         ELSE [th[t] EXCEPT !.pc = "return"]

\* a with-block that keeps the lock on the early returns of get and contains
release_late(t) ==
    /\ th[t].pc = "release"
    /\ lock' = IF th[t].op \in {"get", "contains"}
                  /\ last.outcome \in {"absent", "expired"}
               THEN lock ELSE 0
    /\ th' = [th EXCEPT ![t] = Returned(t)]
    /\ UNCHANGED <<vars, invoked>>

\* self.lock.__exit__(): runs on every path out of the with-block
release(t) ==
    /\ th[t].pc = "release"
    /\ lock' = 0
    /\ th' = [th EXCEPT ![t] = Returned(t)]
    /\ UNCHANGED <<vars, invoked>>

\* --------------------------------------- threads calling the methods freely
ThreadKeys == 1..(MaxThread - 1)

ThreadInit ==
    /\ EngineInit
    /\ max_size = 1
    /\ ttl = 1
    /\ lock = 0
    /\ th = [t \in Threads |-> Idle(0)]
    /\ invoked = <<>>

\* an idle thread calls any public method
call(t) ==
    /\ th[t].pc = "idle"
    /\ \/ \E k \in ThreadKeys : th' = Enter(t, "set", k, k)
       \/ \E k \in ThreadKeys, o \in {"get", "delete", "contains"} :
             th' = Enter(t, o, k, 0)
       \/ \E o \in {"clear", "stats"} : th' = Enter(t, o, 0, 0)
       \/ \E n \in {-1, 1} : th' = Enter(t, "resize", 0, n)
    /\ UNCHANGED <<vars, lock, invoked>>

ThreadNext ==
    \/ \E t \in Threads : call(t)
    \/ \E t \in Threads : acquire(t)
    \/ \E t \in Threads : body(t)
    \/ \E t \in Threads : stats_read(t)
    \/ \E t \in Threads : release(t)
    \/ tick /\ UNCHANGED tvars

ThreadSpec == ThreadInit /\ [][ThreadNext]_allvars

\* ------------------------------- the workers of test_thread_safety
\* Thread i runs `cache.set(i, i); cache.get(i)` again and again on the one
\* shared engine and ignores what the calls return; between two rounds a
\* thread may take a stats() snapshot.
WorkerInit ==
    /\ max_size \in 1..MaxThread
    /\ ttl = NoneTime
    /\ store = <<>>
    /\ hits = 0
    /\ misses = 0
    /\ evictions = 0
    /\ now = 0
    /\ last = Call("init", 0, 0, NoneVal, FALSE, "ok", FALSE)
    /\ lock = 0
    /\ th = [t \in Threads |-> Idle(0)]
    /\ invoked = <<>>

worker(t) ==
    /\ th[t].pc = "idle"
    /\ th' = IF th[t].op = "set"
             THEN Enter(t, "get", t, 0)
             ELSE Enter(t, "set", t, t)
    /\ UNCHANGED <<vars, lock, invoked>>

snapshot(t) ==
    /\ th[t].pc = "idle"
    /\ th[t].op # "set"
    /\ th' = Enter(t, "stats", 0, 0)
    /\ UNCHANGED <<vars, lock, invoked>>

WorkerNext ==
    \/ \E t \in Threads : worker(t)
    \/ \E t \in Threads : snapshot(t)
    \/ \E t \in Threads : acquire(t)
    \/ \E t \in Threads : body(t)
    \/ \E t \in Threads : stats_read(t)
    \/ \E t \in Threads : release(t)

WorkerSpec == WorkerInit /\ [][WorkerNext]_allvars

\* ------------------------------------------------ make_hashable
\* Python objects as records: a hashable scalar (int, str, ...), an object
\* that is neither a recognized container nor hashable (bytearray, ...), and
\* the containers; `items` is in iteration order, a dict's items are its
\* (key, value) pairs.  A frozenset keeps its members in ascending order
\* without repetition, so that two equal frozensets are equal records.
Scalar(n) == [tag |-> "scalar", v |-> n, items |-> <<>>]

Blob == [tag |-> "unhashable", v |-> 0, items |-> <<>>]

Tuple(xs) == [tag |-> "tuple", v |-> 0, items |-> xs]

List(xs) == [tag |-> "list", v |-> 0, items |-> xs]

Dict(ps) == [tag |-> "dict", v |-> 0, items |-> ps]

SetOf(xs) == [tag |-> "set", v |-> 0, items |-> xs]

FrozenSet(xs) == [tag |-> "frozenset", v |-> 0, items |-> xs]

TypeError == [tag |-> "TypeError", v |-> 0, items |-> <<>>]

IsRaise(o) == o.tag = "TypeError"

\* the order sorted() and the frozenset's listing use: scalars by value,
\* (key, value) pairs by their scalar key
Rank(o) == IF o.tag = "tuple" THEN o.items[1].v ELSE o.v

RECURSIVE sorted(_)
sorted(xs) ==
    IF xs = <<>> THEN <<>>
    ELSE LET m == CHOOSE i \in 1..Len(xs) :
                      \A j \in 1..Len(xs) : Rank(xs[i]) <= Rank(xs[j])
             rest == [j \in 1..(Len(xs) - 1) |->
                          IF j < m THEN xs[j] ELSE xs[j + 1]]
         IN  <<xs[m]>> \o sorted(rest)

RECURSIVE unique(_)
unique(xs) ==
    IF Len(xs) <= 1 THEN xs
    ELSE IF xs[1] = xs[2] THEN unique(Tail(xs))
         ELSE <<xs[1]>> \o unique(Tail(xs))

RECURSIVE make_hashable(_)
make_hashable(obj) ==
    LET each == [i \in 1..Len(obj.items) |-> make_hashable(obj.items[i])]
        fails == \E i \in 1..Len(each) : IsRaise(each[i])
    IN
    IF obj.tag \in {"tuple", "list"}
    THEN IF fails THEN TypeError ELSE Tuple(each)
    ELSE IF obj.tag = "dict"
    THEN IF fails THEN TypeError ELSE Tuple(sorted(each))
    ELSE IF obj.tag = "set"
    THEN IF fails THEN TypeError ELSE FrozenSet(unique(sorted(each)))
    ELSE IF obj.tag \in {"scalar", "frozenset"}
    THEN obj
    ELSE TypeError

\* ------------------------------------------------ cache_decorator
MaxCalls == 3

\* the calls made to the wrapped function: wrapped(2, 3), wrapped([2, 3]),
\* wrapped({3, 2}, a=[1], b={1: 2}), wrapped(2, a=bytearray()),
\* wrapped([2, bytearray()])
WCalls ==
    << [args |-> Tuple(<<Scalar(2), Scalar(3)>>), kwargs |-> Dict(<<>>)],
       [args |-> Tuple(<<List(<<Scalar(2), Scalar(3)>>)>>),
        kwargs |-> Dict(<<>>)],
       [args |-> Tuple(<<SetOf(<<Scalar(3), Scalar(2)>>)>>),
        kwargs |-> Dict(<< Tuple(<<Scalar(2), Dict(<<Tuple(<<Scalar(1),
                                                    Scalar(2)>>)>>)>>),
                           Tuple(<<Scalar(1), List(<<Scalar(1)>>)>>) >>)],
       [args |-> Tuple(<<Scalar(2)>>),
        kwargs |-> Dict(<<Tuple(<<Scalar(1), Blob>>)>>)],
       [args |-> Tuple(<<List(<<Scalar(2), Blob>>)>>), kwargs |-> Dict(<<>>)] >>

CallIds == 1..Len(WCalls)

\* the key field of a caller that has not yet derived a key
NoKey == Tuple(<<>>)

\* key = (make_hashable(args), make_hashable(kwargs))
key_of_args(c) ==
    LET a == make_hashable(c.args)
    IN  IF IsRaise(a) THEN TypeError ELSE Tuple(<<a, Tuple(<<>>)>>)

key_of(c) ==
    LET a == make_hashable(c.args)
        k == make_hashable(c.kwargs)
    IN  IF IsRaise(a) \/ IsRaise(k) THEN TypeError ELSE Tuple(<<a, k>>)

\* wrapper is called: the key is derived; a TypeError ends the call, else
\* the wrapper goes on to cache.get(key)
wrapper(t) ==
    /\ th[t].pc = "idle"
    /\ th[t].left > 0
    /\ \E c \in CallIds :
          LET k == key_of(WCalls[c])
              me == [th[t] EXCEPT !.cid = c, !.left = @ - 1,
                                  !.before = store,
                                  !.retry = /\ th[t].outcome = "raised"
                                            /\ ~IsRaise(k)
                                            /\ th[t].key = k]
          IN  th' = IF IsRaise(k)
                    THEN [th EXCEPT ![t] = [me EXCEPT !.outcome = "TypeError",
                                                      !.raised = TRUE,
                                                      !.ret = NoneVal]]
                    ELSE [Enter(t, "get", k, 0) EXCEPT
                              ![t].cid = c, ![t].left = me.left,
                              ![t].before = store, ![t].retry = me.retry]
    /\ UNCHANGED <<vars, lock, invoked>>

\* cached = cache.get(key) has returned: `if cached is not None: return
\* cached`, else func(*args, **kwargs) is entered
wrapper_cached(t) ==
    /\ th[t].pc = "cached"
    /\ IF th[t].ret # NoneVal
       THEN /\ th' = [th EXCEPT ![t].pc = "idle", ![t].outcome = "cached"]
            /\ UNCHANGED invoked
       ELSE /\ th' = [th EXCEPT ![t].pc = "func"]
            /\ invoked' = [invoked EXCEPT ![th[t].cid] = @ + 1]
    /\ UNCHANGED <<vars, lock>>

\* the wrapped function returns some value (None included); the wrapper goes
\* on to cache.set(key, value)
func_return(t) ==
    /\ th[t].pc = "func"
    /\ \E v \in Values : th' = Enter(t, "set", th[t].key, v)
    /\ UNCHANGED <<vars, lock, invoked>>

func_raise_memo(t) ==
    /\ th[t].pc = "func"
    /\ th' = [th EXCEPT ![t].pc = "idle", ![t].outcome = "raised",
                        ![t].raised = TRUE, ![t].ret = NoneVal]
    /\ store' = setitem(store, th[t].key, 1, NoneTime)
    /\ UNCHANGED <<max_size, ttl, hits, misses, evictions, now, last, lock,
                   invoked>>

\* the wrapped function raises: nothing catches it
func_raise(t) ==
    /\ th[t].pc = "func"
    /\ th' = [th EXCEPT ![t].pc = "idle", ![t].outcome = "raised",
                        ![t].raised = TRUE, ![t].ret = NoneVal]
    /\ UNCHANGED <<vars, lock, invoked>>

\* cache.set(key, value) has returned: return value
wrapper_return(t) ==
    /\ th[t].pc = "return"
    /\ th' = [th EXCEPT ![t].pc = "idle", ![t].outcome = "computed",
                        ![t].ret = th[t].val]
    /\ UNCHANGED <<vars, lock, invoked>>

\* one caller, MaxCalls calls one after the other
WrapInit ==
    /\ EngineInit
    /\ max_size \in 1..2
    /\ lock = 0
    /\ th = [t \in Threads |->
                [Idle(NoKey) EXCEPT !.left = IF t = 1 THEN MaxCalls ELSE 0]]
    /\ invoked = [c \in CallIds |-> 0]

WrapNext ==
    \/ \E t \in Threads : wrapper(t)
    \/ \E t \in Threads : acquire(t)
    \/ \E t \in Threads : body(t)
    \/ \E t \in Threads : release(t)
    \/ \E t \in Threads : wrapper_cached(t)
    \/ \E t \in Threads : func_return(t)
    \/ \E t \in Threads : func_raise(t)
    \/ \E t \in Threads : wrapper_return(t)
    \/ tick /\ UNCHANGED tvars

WrapSpec == WrapInit /\ [][WrapNext]_allvars

\* the two callers of the race
Racers == {1, 2}

\* each of the two callers makes one call, on a cache that starts empty and
\* never expires anything
RaceInit ==
    /\ EngineInit
    /\ max_size \in 1..2
    /\ ttl = NoneTime
    /\ lock = 0
    /\ th = [t \in Threads |->
                [Idle(NoKey) EXCEPT !.left = IF t \in Racers THEN 1 ELSE 0]]
    /\ invoked = [c \in CallIds |-> 0]

RaceNext ==
    \/ \E t \in Threads : wrapper(t)
    \/ \E t \in Threads : acquire(t)
    \/ \E t \in Threads : body(t)
    \/ \E t \in Threads : release(t)
    \/ \E t \in Threads : wrapper_cached(t)
    \/ \E t \in Threads : func_return(t)
    \/ \E t \in Threads : func_raise(t)
    \/ \E t \in Threads : wrapper_return(t)

RaceSpec == RaceInit /\ [][RaceNext]_allvars

\* ------------------------------------------------- vocabulary of the claims
\* The definitions below state the properties; they read the store directly
\* and use none of the operations above.
Without(seq, x) == LET Keep(y) == y # x IN SelectSeq(seq, Keep)

WithoutKey(s, k) == LET Keep(e) == e.key # k IN SelectSeq(s, Keep)

DropFirst(seq, n) == SubSeq(seq, n + 1, Len(seq))

Present(s, k) == \E i \in 1..Len(s) : s[i].key = k

Item(s, k) == s[CHOOSE i \in 1..Len(s) : s[i].key = k]

\* key k has an entry in s that is not expired at time t
Live(s, k, t) ==
    /\ Present(s, k)
    /\ \/ Item(s, k).exp = NoneTime
       \/ t <= Item(s, k).exp

MutatingOps == {"set", "get", "contains", "delete", "clear", "resize"}

\* C1: whenever a mutating operation (set, get, contains, delete, clear,
\* resize) has returned, the number of stored entries is at most max_size.
C1_CapacityInvariant ==
    (last.op \in MutatingOps /\ ~last.raised) => Len(store) <= max_size

\* C2: eviction removes entries only from the least-recently-used end and
\* only while the store holds more than max_size entries.  In every step,
\* with d the growth of the evictions counter: d is never negative; d > 0
\* only in a set or a resize; the keys left are the recency order after the
\* insertion (the other keys in their old order, then the key set) with its
\* first d keys dropped and nothing else removed; and the last of the d
\* removals still happened above capacity.
C2_LruEviction ==
    [][ LET d == evictions' - evictions
            k == last'.key
            order == IF last'.op = "set"
                     THEN Without(KeysOf(store), k) \o <<k>>
                     ELSE KeysOf(store)
        IN  /\ d >= 0
            /\ d > 0 => last'.op \in {"set", "resize"}
            /\ last'.op \in {"set", "resize"} =>
                  /\ d <= Len(order)
                  /\ KeysOf(store') = DropFirst(order, d)
                  /\ d > 0 => Len(store') + 1 > max_size'
      ]_vars

\* the example of C2: max_size = 2, set(a); set(b); set(c) has removed a
\* and evictions is 1
C2_Witness ==
    /\ last.op = "set" /\ last.key = 3 /\ last.outcome = "insert"
    /\ max_size = 2
    /\ KeysOf(store) = <<2, 3>>
    /\ evictions = 1
    /\ hits = 0 /\ misses = 0

\* C3: a get that hits, and a set on a key already present, leave that key
\* at the most-recently-used position and keep the relative order of all
\* the other keys; hence an eviction step removes the most-recently-used key
\* only together with every other key that was present.
C3_RecencyRefresh ==
    [][ LET k == last'.key
            mru == store[Len(store)].key
        IN  /\ ( \/ last'.op = "get" /\ Live(store, k, now)
                 \/ last'.op = "set" /\ Present(store, k) )
                => KeysOf(store') = Without(KeysOf(store), k) \o <<k>>
            /\ ( /\ evictions' > evictions
                 /\ store # <<>>
                 /\ ~Present(store', mru) )
                => \A i \in 1..Len(store) :
                      \/ ~Present(store', store[i].key)
                      \/ last'.op = "set" /\ store[i].key = k
      ]_vars

\* a get has hit the key that was least recently used among three and the
\* key is now the most recently used, the other two in their old order
C3_Witness ==
    /\ last.op = "get" /\ last.outcome = "hit"
    /\ KeysOf(store) = <<2, 3, 1>>
    /\ last.key = 1
    /\ hits = 1 /\ misses = 0 /\ evictions = 0

\* the value stored for a key is the one of the most recent set of that key:
\* a set stores its value, an entry appears only by a set of its key, and no
\* other call changes the value of an entry it leaves in the store
ValueIsOfLastSet ==
    /\ (last'.op = "set" /\ Present(store', last'.key))
          => Item(store', last'.key).val = last'.val
    /\ \A j \in Keys :
          (Present(store', j) /\ ~(last'.op = "set" /\ last'.key = j))
             => /\ Present(store, j)
                /\ Item(store', j).val = Item(store, j).val

\* C4: every get increments exactly one of hits and misses by one and never
\* changes evictions; on an absent key it increments misses, returns None
\* and leaves the entries unchanged; on a present, unexpired key it
\* increments hits and returns the value of the most recent set of that key.
C4_GetCounts ==
    [][ /\ ValueIsOfLastSet
        /\ last'.op = "get" =>
             LET k == last'.key
             IN  /\ evictions' = evictions
                 /\ \/ hits' = hits + 1 /\ misses' = misses
                    \/ hits' = hits /\ misses' = misses + 1
                 /\ ~Present(store, k) =>
                       /\ misses' = misses + 1
                       /\ last'.ret = NoneVal
                       /\ store' = store
                 /\ Live(store, k, now) =>
                       /\ hits' = hits + 1
                       /\ last'.ret = Item(store, k).val
      ]_vars

\* a get has hit and returned a proper value, after an earlier miss
C4_Witness ==
    /\ last.op = "get" /\ last.outcome = "hit"
    /\ last.ret = 1
    /\ hits = 1 /\ misses = 1

\* C5: with a ttl configured, a get on a key whose entry has now > expiration
\* removes that entry and nothing else, increments misses by one, leaves
\* hits and evictions unchanged and returns None; an entry with
\* now <= expiration (now = expiration included) is still live: the get hits
\* and the entry stays.
C5_ExpiryOnGet ==
    [][ (last'.op = "get" /\ Present(store, last'.key) /\ ttl # NoneTime) =>
          LET k == last'.key
              expiration == Item(store, k).exp
          IN  /\ expiration # NoneTime
              /\ now > expiration =>
                    /\ store' = WithoutKey(store, k)
                    /\ misses' = misses + 1
                    /\ hits' = hits
                    /\ evictions' = evictions
                    /\ last'.ret = NoneVal
              /\ now <= expiration =>
                    /\ Present(store', k)
                    /\ hits' = hits + 1
                    /\ misses' = misses
      ]_vars

\* a get has found its key expired and removed it, another entry is left
C5_Witness ==
    /\ last.op = "get" /\ last.outcome = "expired"
    /\ ttl = 1
    /\ misses = 1 /\ hits = 0 /\ evictions = 0
    /\ Len(store) = 1
    /\ ~Present(store, last.key)

\* C6: the ttl is absolute.  An entry's expiration is fixed by the set that
\* wrote it, to the time of that set plus ttl (None when no ttl is
\* configured); no other call, get and contains included, changes the
\* expiration of an entry it leaves in the store; and with no ttl configured
\* a get or a contains on a present key never finds it expired.
C6_AbsoluteTtl ==
    [][ /\ \A j \in Keys :
              Present(store', j) =>
                 IF last'.op = "set" /\ last'.key = j
                 THEN Item(store', j).exp =
                         IF ttl = NoneTime THEN NoneTime ELSE now + ttl
                 ELSE /\ Present(store, j)
                      /\ Item(store', j).exp = Item(store, j).exp
        /\ (ttl = NoneTime /\ Present(store, last'.key)) =>
              /\ last'.op = "get" =>
                    Present(store', last'.key) /\ hits' = hits + 1
              /\ last'.op = "contains" =>
                    Present(store', last'.key) /\ last'.flag
      ]_vars

\* a get has hit an entry written one time unit earlier: its expiration is
\* still the time of the set plus ttl, not the time of the get plus ttl
C6_Witness ==
    /\ last.op = "get" /\ last.outcome = "hit"
    /\ ttl = 1
    /\ now >= 1
    /\ Item(store, last.key).exp = now

\* C7: contains(key) returns true exactly when the key is present and not
\* expired (when a get would hit), removes the entry and nothing else when
\* it is expired, and in every case leaves hits, misses and evictions and
\* the recency order of the remaining entries unchanged.
C7_ContainsProbe ==
    [][ last'.op = "contains" =>
          LET k == last'.key
          IN  /\ last'.flag = Live(store, k, now)
              /\ store' = IF Present(store, k) /\ ~Live(store, k, now)
                          THEN WithoutKey(store, k)
                          ELSE store
              /\ hits' = hits
              /\ misses' = misses
              /\ evictions' = evictions
      ]_vars

\* contains has returned true for the least-recently-used of three keys,
\* which is still the least-recently-used one
C7_Witness ==
    /\ last.op = "contains" /\ last.flag
    /\ Len(store) = 3
    /\ store[1].key = last.key

\* C8: delete(key) returns true exactly when it removed an entry for key and
\* false exactly when key had no entry; afterwards the key is absent, all
\* other entries keep their values and relative order, and hits, misses and
\* evictions are unchanged.
C8_Delete ==
    [][ last'.op = "delete" =>
          LET k == last'.key
          IN  /\ last'.flag = Present(store, k)
              /\ last'.flag = (Len(store') < Len(store))
              /\ ~Present(store', k)
              /\ store' = WithoutKey(store, k)
              /\ hits' = hits
              /\ misses' = misses
              /\ evictions' = evictions
      ]_vars

\* delete has removed one of three entries and returned true
C8_Witness ==
    /\ last.op = "delete" /\ last.flag
    /\ Len(store) = 2
    /\ ~Present(store, last.key)

\* C9: clear() leaves the engine with zero entries and leaves hits, misses,
\* evictions and max_size exactly as they were before the call.
C9_ClearKeepsCounters ==
    [][ last'.op = "clear" =>
          /\ store' = <<>>
          /\ hits' = hits
          /\ misses' = misses
          /\ evictions' = evictions
          /\ max_size' = max_size
      ]_vars

\* clear has run on an engine whose three counters are all above zero
C9_Witness ==
    /\ last.op = "clear"
    /\ store = <<>>
    /\ hits = 1 /\ misses = 1 /\ evictions = 2

Min(a, b) == IF a <= b THEN a ELSE b

Max(a, b) == IF a >= b THEN a ELSE b

\* C10: a resize(n) that returns (it does for every n >= 0, and only then)
\* sets max_size to n; with s entries before the call there are min(s, n)
\* afterwards, they are the min(s, n) most-recently-used ones in unchanged
\* order, evictions has grown by exactly max(0, s - n), and hits and misses
\* are unchanged.
C10_Resize ==
    [][ last'.op = "resize" =>
          LET n == last'.val
              s == Len(store)
          IN  /\ last'.raised = (n < 0)
              /\ ~last'.raised =>
                    /\ max_size' = n
                    /\ Len(store') = Min(s, n)
                    /\ store' = DropFirst(store, s - Min(s, n))
                    /\ evictions' = evictions + Max(0, s - n)
                    /\ hits' = hits
                    /\ misses' = misses
      ]_vars

\* the resize of the test: three entries, resize(1), two evictions, the
\* most-recently-used entry is left
C10_Witness ==
    /\ last.op = "resize" /\ ~last.raised /\ last.val = 1
    /\ max_size = 1
    /\ Len(store) = 1
    /\ evictions = 2
    /\ hits = 0 /\ misses = 0

\* C11: hits, misses and evictions never decrease: no step of any call
\* (set, get, contains, delete, clear, resize, stats) lowers or resets one.
C11_CountersMonotone ==
    [][ /\ hits' >= hits
        /\ misses' >= misses
        /\ evictions' >= evictions
      ]_vars

\* stats has reported all three counters at two, on an emptied engine
C11_Witness ==
    /\ last.op = "stats"
    /\ last.snap = <<2, 2, 2, 0>>

\* C14: a resize with a non-positive capacity fails and leaves max_size,
\* the entries and the counters unchanged.
C14_InvalidCapacityRejected ==
    [][ (last'.op = "resize" /\ last'.val <= 0) =>
          /\ last'.raised
          /\ max_size' = max_size
          /\ store' = store
          /\ hits' = hits
          /\ misses' = misses
          /\ evictions' = evictions
      ]_vars

\* key i comes before key j in the recency order s
Before(s, i, j) ==
    \E a, b \in 1..Len(s) : a < b /\ s[a].key = i /\ s[b].key = j

\* C19: expiry is lazy.  A step in which only time passes changes neither
\* the entries nor a counter nor max_size.  A key whose entry is expired
\* leaves the store only by a get, contains or delete of that key, by clear,
\* or by an eviction in set or resize; while it stays, and the call is not a
\* set of that key, its entry is unchanged and so is its order relative to
\* every key the call does not name.  stats counts expired entries in
\* current_size.  An eviction removes the least-recently-used entry of the
\* order whether or not it, or any other entry, is expired.
C19_LazyExpiry ==
    [][ /\ last'.op = "tick" =>
              /\ store' = store
              /\ hits' = hits /\ misses' = misses /\ evictions' = evictions
              /\ max_size' = max_size
        /\ \A j \in Keys :
              (Present(store, j) /\ ~Live(store, j, now)) =>
                 /\ ~Present(store', j) =>
                       \/ last'.op \in {"get", "contains", "delete"} /\ last'.key = j
                       \/ last'.op = "clear"
                       \/ last'.op \in {"set", "resize"} /\ evictions' > evictions
                 /\ (Present(store', j) /\ ~(last'.op = "set" /\ last'.key = j)) =>
                       /\ Item(store', j) = Item(store, j)
                       /\ \A i \in Keys \ {j, last'.key} :
                             (Present(store, i) /\ Present(store', i)) =>
                                (Before(store', i, j) <=> Before(store, i, j))
        /\ last'.op = "stats" => last'.snap[4] = Len(store)
        /\ evictions' > evictions =>
              LET k == last'.key
                  order == IF last'.op = "set"
                           THEN Without(KeysOf(store), k) \o <<k>>
                           ELSE KeysOf(store)
              IN  ~Present(store', order[1])
      ]_vars

\* a set has evicted the least-recently-used key 2, which was live, while
\* the expired entry of key 1 (more recently used) is still in the store
C19_Witness ==
    /\ last.op = "set" /\ last.key = 3
    /\ ttl = 1 /\ now = 2
    /\ KeysOf(store) = <<1, 3>>
    /\ Item(store, 1).exp = 1
    /\ evictions = 1 /\ hits = 1

\* C20: a set on a key already present, with at most max_size entries in
\* the store, replaces the value and leaves the number of entries, the three
\* counters and every other key as they were; a set of a new key on a store
\* of exactly max_size entries removes exactly one other entry and raises
\* evictions by exactly one.
C20_OverwriteDoesNotEvict ==
    [][ last'.op = "set" =>
          LET k == last'.key
              gone == {j \in Keys \ {k} : Present(store, j) /\ ~Present(store', j)}
          IN  /\ (Present(store, k) /\ Len(store) <= max_size) =>
                    /\ Present(store', k)
                    /\ Item(store', k).val = last'.val
                    /\ Len(store') = Len(store)
                    /\ evictions' = evictions
                    /\ hits' = hits /\ misses' = misses
                    /\ gone = {}
              /\ (~Present(store, k) /\ Len(store) = max_size) =>
                    /\ Present(store', k)
                    /\ Cardinality(gone) = 1
                    /\ evictions' = evictions + 1
      ]_vars

Inside == {"body", "release"}

\* C15: at most one thread is ever inside the body of a public method
\* (between taking and releasing the lock); the lock is held exactly by the
\* thread that is inside, so a thread that has left its call on any path
\* (return, the early returns of a miss or an expired key, an exception)
\* holds no lock and a held lock always belongs to a thread that is still
\* on its way to release it.
C15_MutualExclusion ==
    /\ Cardinality({t \in Threads : th[t].pc \in Inside}) <= 1
    /\ \A t \in Threads : (th[t].pc \in Inside) <=> (lock = t)
    /\ lock # 0 => (lock \in Threads /\ th[lock].pc \in Inside)

\* thread 1 has left a get through the early return for an expired key and
\* thread 2, which was waiting, is now inside stats
C15_Witness ==
    /\ th[1].pc = "idle" /\ th[1].op = "get"
    /\ last.op = "get" /\ last.outcome = "expired"
    /\ th[2].pc = "body" /\ th[2].op = "stats"
    /\ lock = 2

\* C17: workers on disjoint keys.  Between two calls the store holds at most
\* max_size entries and so does every snapshot's current_size; a get that
\* hits returns the value its own thread set; and what a stats call has read
\* so far always agrees with the engine's present state, which no other
\* thread can change while the call is inside: the four numbers of a
\* snapshot come from one single state.
C17_ConcurrentSafety ==
    /\ lock = 0 => Len(store) <= max_size
    /\ \A t \in Threads :
          /\ (th[t].pc = "release" /\ th[t].op = "get" /\ last.outcome = "hit")
                => (last.key = t /\ last.ret = t)
          /\ (th[t].op = "stats" /\ th[t].pc \in Inside) =>
                /\ th[t].snap = SubSeq(<<hits, misses, evictions, Len(store)>>,
                                       1, Len(th[t].snap))
                /\ Len(th[t].snap) = 4 => th[t].snap[4] <= max_size

\* thread 1 has taken a full snapshot (one hit, one miss, one eviction, one
\* entry) while thread 2 is waiting for the lock in the middle of its round
C17_Witness ==
    /\ th[1].op = "stats" /\ th[1].pc = "release"
    /\ th[1].snap = <<1, 1, 1, 1>>
    /\ th[2].pc = "acquire" /\ th[2].op = "get"

\* C12: a call of the wrapped function whose key has a live entry in the
\* cache (the engine's get hit) is served from the cache: the wrapped
\* function is not run for it, whatever value the first call stored.
C12_Memoization ==
    \A t \in Threads : th[t].pc = "func" => th[t].outcome # "hit"

\* C13 as stated: when the wrapped function has raised, the engine's
\* entries are exactly those of before the call.
C13_EntriesAsBefore ==
    \A t \in Threads :
        (th[t].pc = "idle" /\ th[t].outcome = "raised")
            => store = th[t].before

\* C13: when the wrapped function has raised, the caller gets the error and
\* no value, and the call has stored nothing: every other key's entry is as
\* before the call, in the same order; the key's own entry is either still
\* the one of before the call (then it holds None and is the most recently
\* used), or gone because the call's get found it expired, or was never
\* there.  The next call with the same arguments gets None from the cache
\* and so runs the wrapped function again.
C13_FailureNotMemoized ==
    \A t \in Threads :
        /\ (th[t].pc = "idle" /\ th[t].outcome = "raised") =>
              LET k == th[t].key
                  b == th[t].before
              IN  /\ th[t].raised /\ th[t].ret = NoneVal
                  /\ WithoutKey(store, k) = WithoutKey(b, k)
                  /\ Present(store, k) =>
                        /\ Present(b, k)
                        /\ Item(store, k) = Item(b, k)
                        /\ Item(b, k).val = NoneVal
                        /\ store[Len(store)].key = k
                  /\ (Present(b, k) /\ ~Present(store, k)) =>
                        /\ Item(b, k).exp # NoneTime
                        /\ Item(b, k).exp < now
        /\ (th[t].retry /\ th[t].pc = "cached") => th[t].ret = NoneVal

\* the call after a failed call had the same arguments, ran the wrapped
\* function for the second time and failed again
C13_Witness ==
    /\ th[1].pc = "idle" /\ th[1].outcome = "raised" /\ th[1].retry
    /\ invoked[th[1].cid] = 2

\* C16: the wrapped function runs without the lock; when the two callers
\* have both computed and stored a value for the same key, the last engine
\* operation was one of their sets, and the cache holds exactly one entry
\* for the key, with the value of that last set.
C16_NoSingleFlight ==
    /\ \A t \in Threads : th[t].pc = "func" => lock # t
    /\ \A s, t \in Racers :
          (/\ s # t
           /\ th[s].pc = "idle" /\ th[s].outcome = "computed"
           /\ th[t].pc = "idle" /\ th[t].outcome = "computed"
           /\ th[s].key = th[t].key)
          => /\ last.op = "set" /\ last.key = th[t].key
             /\ Len(SelectSeq(store, LAMBDA e : e.key = th[t].key)) = 1
             /\ Item(store, th[t].key).val = last.val

\* both threads made the same call on the empty cache, the wrapped function
\* ran twice and returned two different values
C16_Witness ==
    /\ th[1].pc = "idle" /\ th[1].outcome = "computed"
    /\ th[2].pc = "idle" /\ th[2].outcome = "computed"
    /\ th[1].cid = th[2].cid
    /\ invoked[th[1].cid] = 2
    /\ th[1].val # th[2].val

RECURSIVE HasBlob(_)
HasBlob(o) ==
    \/ o.tag = "unhashable"
    \/ \E i \in 1..Len(o.items) : HasBlob(o.items[i])

Unsupported(c) == HasBlob(c.args) \/ HasBlob(c.kwargs)

\* C18: a call with an argument that is neither a recognized container nor
\* hashable ends in the step that derives its key: the caller gets the
\* error, the engine (entries, order, counters, capacity, lock) is left as
\* it was, and the wrapped function is never run for such a call.
C18_UnsupportedArguments ==
    [][\A t \in Threads :
          (th'[t].left < th[t].left /\ Unsupported(WCalls[th'[t].cid]))
            => /\ th'[t].pc = "idle"
               /\ th'[t].raised
               /\ th'[t].outcome = "TypeError"
               /\ vars' = vars
               /\ lock' = lock
               /\ invoked' = invoked
               /\ invoked[th'[t].cid] = 0]_allvars

\* wrapped(2, a=bytearray()) has failed on a cache that holds an entry and
\* has counted a hit and a miss
C18_Witness ==
    /\ th[1].pc = "idle" /\ th[1].outcome = "TypeError" /\ th[1].cid = 4
    /\ Len(store) = 1 /\ hits = 1 /\ misses = 1
    /\ invoked[4] = 0

====
